---- MODULE Spec2Model ----
(***************************************************************************)
(* Model of ParvaOS' physical-memory bootstrap layer (src/memory.rs): the  *)
(* boot memory map, the global physical-memory offset, init, the address   *)
(* translators and the bump frame allocator BootInfoFrameAllocator.        *)
(***************************************************************************)
EXTENDS Integers, Sequences, FiniteSets, TLC

(***************************************************************************)
(* Bounds of the model.                                                    *)
(***************************************************************************)
\* Longest boot memory map that is enumerated.
MaxRegions == 2
\* The frame numbers of the region boundaries are drawn from 0..MaxGrid.
MaxGrid == 2
\* Allocator instances the environment builds with BootInfoFrameAllocator::init.
MaxAllocators == 2
\* Calls of init that are followed.
MaxInitCalls == 2
\* Frames init_heap asks its allocator for.
MaxHeapFrames == 1
\* The largest usize of the model.  It stands for 2^64 - 1 and is kept small
\* so that a counter can be driven up to it; it lies above every other
\* bound on a counter.
USIZE_MAX == 7

(***************************************************************************)
(* Program constants.                                                      *)
(***************************************************************************)
\* step_by(4096) and the size of a Size4KiB PhysFrame.
PAGE_SIZE == 4096
\* 2^16: a u64 is held as four 16-bit limbs.
LIMB == 65536

VARIABLES
    memory_map,       \* boot_info.memory_map: sequence of regions
    boot_offset,      \* boot_info.physical_memory_offset
    overflow_checks,  \* the build panics on integer overflow (else it wraps)
    PHYS_MEM_OFFSET,  \* the static mut PHYS_MEM_OFFSET
    cr3,              \* the level-4 table frame held by the Cr3 register
    phys_mem,         \* physical memory: per frame that holds any, its 512 words
    allocators,       \* the BootInfoFrameAllocator instances: [next, owner]
    returned,         \* per instance, the results of its allocate_frame calls
    pc,               \* where the kernel is: "idle", inside init, or "halted"
    region_i,         \* init: regions reported so far
    memory_size,      \* init: the running total
    console,          \* the print sink
    init_mapper,      \* init: the OffsetPageTable it built
    init_allocator,   \* init: index of the allocator it built, 0 if none
    heap_frames,      \* init: frames init_heap has taken so far
    heap_result,      \* init: what init_heap has returned
    init_calls,       \* calls of init so far
    offset_writes,    \* writes to PHYS_MEM_OFFSET so far
    result,           \* the last phys_to_virt / virt_to_phys call and its outcome
    panic,            \* the panic message once the kernel has halted
    PIDS,             \* process.rs: the counter PIDS
    PROCESS,          \* process.rs: the Process inside PROCESS, None until first use
    lock,             \* process.rs: the thread holding the mutex of PROCESS, or "free"
    threads,          \* per thread, the process.rs call it is in
    created,          \* the ids Process::new has handed out, in order
    committed         \* the environment and directory of the completed writes

boot_vars == <<memory_map, boot_offset, overflow_checks>>
init_locals ==
    <<region_i, memory_size, init_mapper, init_allocator, heap_frames, heap_result>>
alloc_vars == <<allocators, returned>>
proc_vars == <<PIDS, PROCESS, lock, threads, created, committed>>

vars == <<memory_map, boot_offset, overflow_checks, PHYS_MEM_OFFSET, cr3,
          phys_mem, allocators, returned, pc, region_i, memory_size,
          console, init_mapper, init_allocator, heap_frames, heap_result, init_calls,
          offset_writes, result, panic, PIDS, PROCESS, lock, threads, created,
          committed>>

\* The state of memory.rs.
mem_vars == <<memory_map, boot_offset, overflow_checks, PHYS_MEM_OFFSET, cr3,
              phys_mem, allocators, returned, pc, region_i, memory_size,
              console, init_mapper, init_allocator, heap_frames, heap_result,
              init_calls, offset_writes, result, panic>>

(***************************************************************************)
(* Option<T>                                                               *)
(***************************************************************************)
None == <<"None">>
Some(x) == <<"Some", x>>
IsSome(o) == o[1] = "Some"
Unwrap(o) == o[2]

(***************************************************************************)
(* The boot memory map.                                                    *)
(***************************************************************************)
RegionTypes == {"Usable", "Reserved"}

FrameNumbers == 0..MaxGrid

\* FrameRange: the frames from start_frame_number up to, not including,
\* end_frame_number.
FrameRanges ==
    {[start_frame_number |-> s, end_frame_number |-> e] :
        s \in FrameNumbers, e \in FrameNumbers}

\* FrameRange::start_addr and FrameRange::end_addr: the frame number times
\* the frame size.
start_addr(range) == range.start_frame_number * PAGE_SIZE
end_addr(range) == range.end_frame_number * PAGE_SIZE

\* MemoryRegion: a frame range and its type.
Regions == {[range |-> g, region_type |-> t] : g \in FrameRanges, t \in RegionTypes}

\* Every list of regions up to the bound, in any order of addresses; a
\* range may end below its start, FrameRange does not forbid it.
RECURSIVE SeqsUpTo(_, _)
SeqsUpTo(S, n) ==
    IF n = 0 THEN {<<>>}
    ELSE LET shorter == SeqsUpTo(S, n - 1)
         IN  shorter \cup {Append(q, x) : q \in {p \in shorter : Len(p) = n - 1}, x \in S}

MemoryMaps == SeqsUpTo(Regions, MaxRegions)

(***************************************************************************)
(* BootInfoFrameAllocator::usable_frames                                   *)
(***************************************************************************)
\* A step_by that also yields the address equal to end.
RECURSIVE step_by_inclusive(_, _, _)
step_by_inclusive(start, end, step) ==
    IF start > end THEN <<>>
    ELSE <<start>> \o step_by_inclusive(start + step, end, step)

\* (start..end).step_by(step): start, start + step, ... while below end.
RECURSIVE step_by(_, _, _)
step_by(start, end, step) ==
    IF start >= end THEN <<>>
    ELSE <<start>> \o step_by(start + step, end, step)

\* PhysFrame::containing_address: the address rounded down to a frame boundary.
containing_address(addr) == addr - (addr % PAGE_SIZE)

\* A filter that keeps every region.
is_usable_any(r) == TRUE

\* regions.filter(|r| r.region_type == MemoryRegionType::Usable)
is_usable(r) == r.region_type = "Usable"

\* The addresses one usable region contributes.
frame_addresses(r) == step_by(start_addr(r.range), end_addr(r.range), PAGE_SIZE)

\* frame_addresses.map(|addr| PhysFrame::containing_address(PhysAddr::new(addr)))
region_frames(r) ==
    LET addrs == frame_addresses(r)
    IN  [i \in 1..Len(addrs) |-> containing_address(addrs[i])]

RECURSIVE usable_frames(_)
usable_frames(map) ==
    IF map = <<>> THEN <<>>
    ELSE LET r == Head(map)
             own == IF is_usable(r) THEN region_frames(r) ELSE <<>>
         IN  own \o usable_frames(Tail(map))

\* Iterator::nth(n), n counted from 0.
nth(s, n) == IF n < Len(s) THEN Some(s[n + 1]) ELSE None

(***************************************************************************)
(* 64-bit words.  A u64 is four 16-bit limbs, most significant first, so   *)
(* that 0xFFFF_8000_0000_0000 reads <<65535, 32768, 0, 0>>.                *)
(***************************************************************************)
Zero64 == <<0, 0, 0, 0>>

\* A small address as a u64.
ToU64(n) == <<0, 0, n \div LIMB, n % LIMB>>

\* u64 + u64: the wrapped sum and whether it overflowed.
add64(a, b) ==
    LET s4 == a[4] + b[4]
        s3 == a[3] + b[3] + (s4 \div LIMB)
        s2 == a[2] + b[2] + (s3 \div LIMB)
        s1 == a[1] + b[1] + (s2 \div LIMB)
    IN  [value    |-> <<s1 % LIMB, s2 % LIMB, s3 % LIMB, s4 % LIMB>>,
         overflow |-> s1 >= LIMB]

Panic(msg) == <<"Panic", msg>>
IsPanic(o) == o[1] = "Panic"

\* The `+` of the build: a panic with overflow checks, the wrapped sum without.
checked_add(a, b, checks) ==
    LET s == add64(a, b)
    IN  IF s.overflow /\ checks
        THEN Panic("attempt to add with overflow")
        ELSE Some(s.value)

\* u64 - u64: the wrapped difference and whether it went below zero.
sub64(a, b) ==
    LET d4 == a[4] - b[4]
        d3 == a[3] - b[3] - (IF d4 < 0 THEN 1 ELSE 0)
        d2 == a[2] - b[2] - (IF d3 < 0 THEN 1 ELSE 0)
        d1 == a[1] - b[1] - (IF d2 < 0 THEN 1 ELSE 0)
    IN  [value    |-> <<(d1 + LIMB) % LIMB, (d2 + LIMB) % LIMB,
                        (d3 + LIMB) % LIMB, (d4 + LIMB) % LIMB>>,
         overflow |-> d1 < 0]

\* The `-` of the build: a panic with overflow checks, the wrapped
\* difference without.
checked_sub(a, b, checks) ==
    LET d == sub64(a, b)
    IN  IF d.overflow /\ checks
        THEN Panic("attempt to subtract with overflow")
        ELSE Some(d.value)

\* u64 >> 10
shr10(a) ==
    <<a[1] \div 1024,
      (a[2] \div 1024) + ((a[1] % 1024) * 64),
      (a[3] \div 1024) + ((a[2] % 1024) * 64),
      (a[4] \div 1024) + ((a[3] % 1024) * 64)>>

\* addr.get_bits(47..64)
bits_47_64(addr) == (addr[1] * 2) + (addr[2] \div 32768)

\* A VirtAddr::new that accepts every word as it is.
VirtAddr_new_unchecked(addr) == Some(addr)

\* VirtAddr::new of the x86_64 releases that export MapperAllSizes: a
\* canonical address is kept, one whose bits 48..64 are clear and whose
\* bit 47 is set is sign extended, any other word panics.
VirtAddr_new(addr) ==
    CASE bits_47_64(addr) \in {0, 131071} -> Some(addr)
      [] bits_47_64(addr) = 1 -> Some(<<LIMB - 1, addr[2], addr[3], addr[4]>>)
      [] OTHER -> Panic("address passed to VirtAddr::new must not contain any data in bits 48 to 64")

\* phys_to_virt: VirtAddr::new(addr.as_u64() + PHYS_MEM_OFFSET)
phys_to_virt(addr, offset, checks) ==
    LET sum == checked_add(addr, offset, checks)
    IN  IF IsPanic(sum) THEN sum ELSE VirtAddr_new(Unwrap(sum))

(***************************************************************************)
(* Physical memory and the page tables in it.  phys_mem gives, per physical *)
(* frame, the 64-bit words that are not zero, by their index in the frame;  *)
(* a frame that is not in its domain holds zeros.  The processor reaches    *)
(* memory through the four-level tables that Cr3 names, and so does the     *)
(* kernel when it follows a pointer.                                        *)
(***************************************************************************)
\* 0x4000 and 0x5000
L4_A == ToU64(16384)
L4_B == ToU64(20480)
Roots == {L4_A, L4_B}

page_of(v) == <<v[1], v[2], v[3], v[4] - (v[4] % PAGE_SIZE)>>
page_offset(v) == v[4] % PAGE_SIZE

\* A mapper that is built once, by init, and handed out again afterwards.
mapper_cached(physical_memory_offset, l4_frame, checks) ==
    IF IsSome(init_mapper) THEN init_mapper
    ELSE LET virt == checked_add(physical_memory_offset, l4_frame, checks)
             ptr  == IF IsPanic(virt) THEN virt ELSE VirtAddr_new(Unwrap(virt))
         IN  IF IsPanic(ptr) THEN ptr
             ELSE Some([level_4_table |-> Unwrap(ptr),
                        phys_offset |-> physical_memory_offset])

\* active_level_4_table and mapper: the OffsetPageTable over the level-4
\* table found at physical_memory_offset + Cr3, or the panic of that sum.
mapper(physical_memory_offset, l4_frame, checks) ==
    LET virt == checked_add(physical_memory_offset, l4_frame, checks)
        ptr  == IF IsPanic(virt) THEN virt ELSE VirtAddr_new(Unwrap(virt))
    IN  IF IsPanic(ptr) THEN ptr
        ELSE Some([level_4_table |-> Unwrap(ptr), phys_offset |-> physical_memory_offset])

\* VirtAddr::p4_index .. p1_index: bits 39..48, 30..39, 21..30 and 12..21.
p4_index(v) == (v[2] \div 128) % 512
p3_index(v) == ((v[2] % 128) * 4) + (v[3] \div 16384)
p2_index(v) == (v[3] \div 32) % 512
p1_index(v) == ((v[3] % 32) * 16) + (v[4] \div PAGE_SIZE)

\* PageTableEntry: bit 0 is PRESENT, bit 7 is HUGE_PAGE, bits 12..52 are the
\* address; an entry of all zeros is unused.
is_unused(entry) == entry = Zero64
PRESENT(entry) == entry[4] % 2 = 1
HUGE_PAGE(entry) == (entry[4] \div 128) % 2 = 1
entry_addr(entry) == <<entry[1] % 16, entry[2], entry[3], entry[4] - (entry[4] % PAGE_SIZE)>>

\* The entry that names the next table or the 4 KiB frame at the aligned
\* address frame: PRESENT | WRITABLE.  The entry of a huge page:
\* PRESENT | WRITABLE | HUGE_PAGE.
table_entry(frame) == <<frame[1], frame[2], frame[3], frame[4] + 3>>
huge_entry(frame) == <<frame[1], frame[2], frame[3], frame[4] + 131>>

\* A frame whose 512 words all hold the same value.
Filled(entry) == [i \in 0..511 |-> entry]

\* The words of the frame at physical address f, and the word at index i.
frame_words(mem, f) == IF f \in DOMAIN mem THEN mem[f] ELSE <<>>
entry_at(table, i) == IF i \in DOMAIN table THEN table[i] ELSE Zero64

\* The 1 GiB and the 2 MiB frame that hold an address, and the low 30 and
\* 21 bits of an address.
frame_1g(a) == <<a[1], a[2], a[3] - (a[3] % 16384), 0>>
frame_2m(a) == <<a[1], a[2], a[3] - (a[3] % 32), 0>>
offset_1g(v) == <<0, 0, v[3] % 16384, v[4]>>
offset_2m(v) == <<0, 0, v[3] % 32, v[4]>>

\* The translation the processor makes of the virtual address v through the
\* tables rooted at the frame root: the physical address, or None where the
\* access faults (no canonical address, or an entry that is not present).
mmu(mem, root, v) ==
    LET e4 == entry_at(frame_words(mem, root), p4_index(v))
    IN  IF bits_47_64(v) \notin {0, 131071} \/ ~PRESENT(e4) THEN None
        ELSE
        LET e3 == entry_at(frame_words(mem, entry_addr(e4)), p3_index(v))
        IN  IF ~PRESENT(e3) THEN None
            ELSE IF HUGE_PAGE(e3)
            THEN Some(add64(frame_1g(entry_addr(e3)), offset_1g(v)).value)
            ELSE
            LET e2 == entry_at(frame_words(mem, entry_addr(e3)), p2_index(v))
            IN  IF ~PRESENT(e2) THEN None
                ELSE IF HUGE_PAGE(e2)
                THEN Some(add64(frame_2m(entry_addr(e2)), offset_2m(v)).value)
                ELSE
                LET e1 == entry_at(frame_words(mem, entry_addr(e2)), p1_index(v))
                IN  IF ~PRESENT(e1) THEN None
                    ELSE Some(add64(entry_addr(e1), <<0, 0, 0, page_offset(v)>>).value)

\* A pointer that takes the frame address itself for the virtual address.
frame_to_pointer_identity(phys_offset, frame, checks) == VirtAddr_new(frame)

\* PhysOffset::frame_to_pointer: the virtual address phys_offset + frame,
\* at which the mapper expects to find the table of that frame.
frame_to_pointer(phys_offset, frame, checks) ==
    LET sum == checked_add(phys_offset, frame, checks)
    IN  IF IsPanic(sum) THEN sum ELSE VirtAddr_new(Unwrap(sum))

\* &*ptr, &table[index]: the read of the table behind the pointer ptr.  The
\* processor translates ptr through the tables Cr3 names; the read faults
\* where they have no translation, and else gives the words of the frame
\* the pointer leads to, page table or not.
read_table(mem, root, ptr) ==
    LET phys == mmu(mem, root, ptr)
    IN  IF IsSome(phys) THEN Some(frame_words(mem, page_of(Unwrap(phys))))
        ELSE Panic("page fault")

\* PageTableWalker::next_table: no table behind an entry that is not
\* present, no table behind a huge-page entry, else the table read at
\* phys_offset + entry.addr().
next_table(mem, root, phys_offset, entry, checks) ==
    IF ~PRESENT(entry) THEN None
    ELSE IF HUGE_PAGE(entry) THEN <<"MappedToHugePage">>
    ELSE LET ptr == frame_to_pointer(phys_offset, entry_addr(entry), checks)
         IN  IF IsPanic(ptr) THEN ptr ELSE read_table(mem, root, Unwrap(ptr))

\* The end of a walk at a level below which there is no table.
stops(t) == ~IsSome(t)

\* MappedPageTable::translate and translate_addr through the mapper m, whose
\* reads go through the tables of root: the 1 GiB, 2 MiB or 4 KiB frame an
\* entry names plus the low 30, 21 or 12 bits of v.
translate_addr(mem, root, m, v, checks) ==
    LET t4 == read_table(mem, root, m.level_4_table)
    IN  IF stops(t4) THEN t4
        ELSE
        LET t3 == next_table(mem, root, m.phys_offset,
                             entry_at(Unwrap(t4), p4_index(v)), checks)
        IN  IF t3[1] = "MappedToHugePage"
            THEN Panic("level 4 entry has huge page bit set")
            ELSE IF stops(t3) THEN t3
            ELSE
            LET e3 == entry_at(Unwrap(t3), p3_index(v))
                t2 == next_table(mem, root, m.phys_offset, e3, checks)
            IN  IF t2[1] = "MappedToHugePage"
                THEN Some(add64(frame_1g(entry_addr(e3)), offset_1g(v)).value)
                ELSE IF stops(t2) THEN t2
                ELSE
                LET e2 == entry_at(Unwrap(t2), p2_index(v))
                    t1 == next_table(mem, root, m.phys_offset, e2, checks)
                IN  IF t1[1] = "MappedToHugePage"
                    THEN Some(add64(frame_2m(entry_addr(e2)), offset_2m(v)).value)
                    ELSE IF stops(t1) THEN t1
                    ELSE
                    LET e1 == entry_at(Unwrap(t1), p1_index(v))
                    IN  IF is_unused(e1) THEN None
                        ELSE Some(add64(entry_addr(e1),
                                        <<0, 0, 0, page_offset(v)>>).value)

(***************************************************************************)
(* The sampled 64-bit inputs.                                              *)
(***************************************************************************)
\* 0x0000_1000_0000_0000 and 0xFFFF_8000_0000_0000
OffsetSamples == {<<0, 4096, 0, 0>>, <<65535, 32768, 0, 0>>}

\* 0x0, 0x1000, 0x2000_0000_0010, 0x7000_0000_0000, 0x8000_0000_0000,
\* 0x000F_FFFF_FFFF_F000: physical addresses, below 2^52
PhysSamples ==
    {Zero64, ToU64(4096), <<0, 8192, 0, 16>>, <<0, 28672, 0, 0>>, <<0, 32768, 0, 0>>,
     <<15, 65535, 65535, 61440>>}

\* The first page of the kernel heap, 0x4444_4444_0000.
HEAP_START == <<0, 17476, 17476, 0>>

heap_page(n) == <<HEAP_START[1], HEAP_START[2], HEAP_START[3], n * PAGE_SIZE>>

(***************************************************************************)
(* The memory the boot loader leaves behind: two address spaces, each with  *)
(* its tables, the offset mapping of physical memory in 1 GiB pages, the    *)
(* tables down to level 1 for the heap pages, and a mapping of the lowest   *)
(* gigabyte of virtual addresses that the kernel does not rely on.          *)
(***************************************************************************)
\* 0x4000_0000, where the frames begin that hold no page table.
DATA_BASE == <<0, 0, 16384, 0>>

\* What the lowest gigabyte of virtual addresses leads to: nothing; the
\* lowest gigabyte of physical memory; or the gigabyte above it, where the
\* frames behind the addresses 0x4000 and 0x5000 are filled with the word
\* 0x4003, 0x4000_0083 (HUGE_PAGE set) or 0x0008_0000_0000_0003 (an entry
\* address that is no virtual address).
LowSamples ==
    {[kind |-> "unmapped", word |-> Zero64],
     [kind |-> "identity", word |-> Zero64],
     [kind |-> "data", word |-> ToU64(16387)],
     [kind |-> "data", word |-> <<0, 0, 16384, 131>>],
     [kind |-> "data", word |-> <<8, 0, 0, 3>>]}

\* The physical addresses whose gigabyte the address space of root maps at
\* the offset.
MappedPhys(root) == IF root = L4_A THEN PhysSamples ELSE {Zero64, ToU64(4096)}

\* offset + p is a virtual address: the sum does not leave 64 bits and is
\* canonical.
OffsetMappable(offset, p) ==
    LET sum == add64(offset, p)
    IN  ~sum.overflow /\ bits_47_64(sum.value) \in {0, 131071}

\* The 1 GiB pages of the address space of root.
Leaves(root, offset, low) ==
    {[virt |-> add64(offset, g).value, phys |-> g] :
        g \in {frame_1g(p) : p \in {q \in MappedPhys(root) : OffsetMappable(offset, q)}}}
    \cup (CASE low.kind = "unmapped" -> {}
            [] low.kind = "identity" -> {[virt |-> Zero64, phys |-> Zero64]}
            [] OTHER -> {[virt |-> Zero64, phys |-> DATA_BASE]})

\* The frames of the tables of root: the level-3 table of level-4 index i4,
\* and the level-2 and level-1 table of the heap.
L3_frame(root, i4) ==
    ToU64((IF root = L4_A THEN 256 ELSE 1024) * PAGE_SIZE + (i4 * PAGE_SIZE))
L2_heap(root) == L3_frame(root, 512)
L1_heap(root) == L3_frame(root, 513)

L4_table(root, leaves) ==
    [i \in {p4_index(m.virt) : m \in leaves} \cup {p4_index(HEAP_START)} |->
        table_entry(L3_frame(root, i))]

L3_table(root, leaves, i4) ==
    LET own  == {m \in leaves : p4_index(m.virt) = i4}
        huge == [j \in {p3_index(m.virt) : m \in own} |->
                    huge_entry((CHOOSE m \in own : p3_index(m.virt) = j).phys)]
    IN  IF i4 = p4_index(HEAP_START)
        THEN (p3_index(HEAP_START) :> table_entry(L2_heap(root))) @@ huge
        ELSE huge

\* The frames that hold the tables of one address space.
AddressSpace(root, leaves) ==
    LET l4 == L4_table(root, leaves)
    IN  (root :> l4)
        @@ [f \in {L3_frame(root, i) : i \in DOMAIN l4} |->
               L3_table(root, leaves, CHOOSE i \in DOMAIN l4 : L3_frame(root, i) = f)]
        @@ (L2_heap(root) :> (p2_index(HEAP_START) :> table_entry(L1_heap(root))))
        @@ (L1_heap(root) :> <<>>)

\* The frames, no page tables, behind the virtual addresses 0x4000 and
\* 0x5000 where the lowest gigabyte leads to the frames from DATA_BASE on.
DataFrames(low) ==
    IF low.kind = "data"
    THEN [f \in {add64(DATA_BASE, r).value : r \in Roots} |-> Filled(low.word)]
    ELSE <<>>

InitialMemory(offset, low) ==
    AddressSpace(L4_A, Leaves(L4_A, offset, low))
    @@ AddressSpace(L4_B, Leaves(L4_B, offset, low))
    @@ DataFrames(low)

\* Virtual addresses handed to virt_to_phys: what phys_to_virt returns for
\* the sampled physical addresses, a heap address and an address nothing
\* maps.
VirtSamples(offset, checks) ==
    {Unwrap(phys_to_virt(p, offset, checks)) :
        p \in {q \in PhysSamples : IsSome(phys_to_virt(q, offset, checks))}}
        \cup {HEAP_START, <<0, 0, 57005, 0>>}

(***************************************************************************)
(* Operations of the allocator.                                            *)
(***************************************************************************)
\* A constructor that continues from the cursor of the instance built last.
NewAllocator_shared(owner) ==
    [next |-> IF allocators = <<>> THEN 0 ELSE allocators[Len(allocators)].next,
     owner |-> owner]

\* BootInfoFrameAllocator::init(memory_map): a fresh instance, cursor 0.
NewAllocator(owner) == [next |-> 0, owner |-> owner]

\* The cursor after allocate_frame: self.next += 1, wrapped to the width of
\* usize.
advance(next) == (next + 1) % (USIZE_MAX + 1)

\* self.next += 1 overflows.
cursor_overflows(next) == next = USIZE_MAX

\* The value allocate_frame returns from cursor position `next`.
allocate_result(map, next) == nth(usable_frames(map), next)

Halt(msg) == pc' = "halted" /\ panic' = msg

\* allocate_frame on instance i panics: the build checks for overflow and
\* the cursor cannot be incremented.
AllocatePanics(i) == overflow_checks /\ cursor_overflows(allocators[i].next)

\* allocate_frame on instance i: the frame at the cursor is looked up, the
\* cursor is incremented, the frame is returned.
AllocateOn(i) ==
    IF AllocatePanics(i)
    THEN Halt("attempt to add with overflow") /\ UNCHANGED alloc_vars
    ELSE /\ allocators' = [allocators EXCEPT ![i].next = advance(@)]
         /\ returned' = [returned EXCEPT
                            ![i] = Append(@, allocate_result(memory_map, allocators[i].next))]
         /\ UNCHANGED <<pc, panic>>

EnvAllocators == {i \in 1..Len(allocators) : allocators[i].owner = "env"}

\* The environment builds an allocator over the boot memory map, while it
\* has built fewer than `limit`.
BootInfoFrameAllocator_init(limit) ==
    /\ pc = "idle"
    /\ Cardinality(EnvAllocators) < limit
    /\ allocators' = Append(allocators, NewAllocator("env"))
    /\ returned' = Append(returned, <<>>)
    /\ UNCHANGED <<proc_vars, boot_vars, PHYS_MEM_OFFSET, cr3, phys_mem, pc, init_locals,
                   console, init_calls, offset_writes, result, panic>>

\* The environment calls allocate_frame on one of its instances, on which
\* fewer than `limit` calls have returned.
allocate_frame(i, limit) ==
    /\ pc = "idle"
    /\ i \in EnvAllocators
    /\ Len(returned[i]) < limit
    /\ AllocateOn(i)
    /\ UNCHANGED <<proc_vars, boot_vars, PHYS_MEM_OFFSET, cr3, phys_mem, init_locals,
                   console, init_calls, offset_writes, result>>

(***************************************************************************)
(* init, one action per step of its body.                                  *)
(***************************************************************************)
RegionLine(r) ==
    [kind |-> "region", start_addr |-> start_addr(r.range), end_addr |-> end_addr(r.range),
     region_type |-> r.region_type, kb |-> Zero64]

\* print!("MEM {} KB\n", memory_size >> 10)
TotalLine(size) ==
    [kind |-> "total", start_addr |-> 0, end_addr |-> 0, region_type |-> "",
     kb |-> shr10(size)]

\* An init that builds its page-table view before it records the offset.
init_step_after_swapped(step) ==
    CASE step = "report" -> "mapper"
      [] step = "mapper" -> "offset"
      [] step = "offset" -> "allocator"
      [] step = "allocator" -> "heap"
      [] step = "heap" -> "expect"
      [] OTHER -> "idle"

\* The statement of init that follows each of its statements.
init_step_after(step) ==
    CASE step = "report" -> "offset"
      [] step = "offset" -> "mapper"
      [] step = "mapper" -> "allocator"
      [] step = "allocator" -> "heap"
      [] step = "heap" -> "expect"
      [] OTHER -> "idle"

\* A size that counts the usable regions only.
region_size_usable(r, checks) ==
    IF r.region_type = "Usable"
    THEN checked_sub(ToU64(end_addr(r.range)), ToU64(start_addr(r.range)), checks)
    ELSE Some(Zero64)

\* end_addr - start_addr, in u64.
region_size(r, checks) ==
    checked_sub(ToU64(end_addr(r.range)), ToU64(start_addr(r.range)), checks)

\* init is entered: let mut memory_size = 0.
init_enter ==
    /\ pc = "idle"
    /\ init_calls < MaxInitCalls
    /\ init_calls' = init_calls + 1
    /\ pc' = "report"
    /\ region_i' = 0
    /\ memory_size' = Zero64
    /\ init_mapper' = None
    /\ init_allocator' = 0
    /\ heap_frames' = 0
    /\ heap_result' = "none"
    /\ UNCHANGED <<proc_vars, boot_vars, PHYS_MEM_OFFSET, cr3, phys_mem, alloc_vars,
                   console, offset_writes, result, panic>>

\* One iteration of the loop over boot_info.memory_map: the size of the
\* region is added to the total, then the region is printed; a subtraction
\* or an addition that overflows ends init in a build that checks.
init_report_region ==
    /\ pc = "report"
    /\ region_i < Len(memory_map)
    /\ LET region == memory_map[region_i + 1]
           size   == region_size(region, overflow_checks)
           total  == IF IsPanic(size) THEN size
                     ELSE checked_add(memory_size, Unwrap(size), overflow_checks)
       IN  IF IsPanic(total)
           THEN Halt(total[2]) /\ UNCHANGED <<memory_size, console, region_i>>
           ELSE /\ memory_size' = Unwrap(total)
                /\ console' = Append(console, RegionLine(region))
                /\ region_i' = region_i + 1
                /\ UNCHANGED <<pc, panic>>
    /\ UNCHANGED <<proc_vars, boot_vars, PHYS_MEM_OFFSET, cr3, phys_mem, alloc_vars,
                   init_mapper, init_allocator, heap_frames, heap_result, init_calls,
                   offset_writes, result>>

\* The summary line after the loop.
init_report_total ==
    /\ pc = "report"
    /\ region_i = Len(memory_map)
    /\ console' = Append(console, TotalLine(memory_size))
    /\ pc' = init_step_after("report")
    /\ UNCHANGED <<proc_vars, boot_vars, PHYS_MEM_OFFSET, cr3, phys_mem, alloc_vars,
                   init_locals, init_calls, offset_writes, result, panic>>

\* PHYS_MEM_OFFSET = boot_info.physical_memory_offset
init_set_offset ==
    /\ pc = "offset"
    /\ PHYS_MEM_OFFSET' = boot_offset
    /\ offset_writes' = offset_writes + 1
    /\ pc' = init_step_after("offset")
    /\ UNCHANGED <<proc_vars, boot_vars, cr3, phys_mem, alloc_vars, init_locals, console,
                   init_calls, result, panic>>

\* let mut mapper = mapper(VirtAddr::new(PHYS_MEM_OFFSET))
init_build_mapper ==
    /\ pc = "mapper"
    /\ LET off == VirtAddr_new(PHYS_MEM_OFFSET)
           m   == IF IsPanic(off) THEN off ELSE mapper(Unwrap(off), cr3, overflow_checks)
       IN  IF IsPanic(m)
           THEN Halt(m[2]) /\ UNCHANGED init_mapper
           ELSE /\ init_mapper' = m
                /\ pc' = init_step_after("mapper")
                /\ UNCHANGED panic
    /\ UNCHANGED <<proc_vars, boot_vars, PHYS_MEM_OFFSET, cr3, phys_mem, alloc_vars,
                   region_i, memory_size, init_allocator, heap_frames, heap_result, console,
                   init_calls, offset_writes, result>>

\* let mut frame_allocator = BootInfoFrameAllocator::init(&boot_info.memory_map)
init_build_allocator ==
    /\ pc = "allocator"
    /\ allocators' = Append(allocators, NewAllocator("init"))
    /\ returned' = Append(returned, <<>>)
    /\ init_allocator' = Len(allocators) + 1
    /\ pc' = init_step_after("allocator")
    /\ UNCHANGED <<proc_vars, boot_vars, PHYS_MEM_OFFSET, cr3, phys_mem, region_i,
                   memory_size, init_mapper, heap_frames, heap_result, console, init_calls,
                   offset_writes, result, panic>>

\* init_heap takes a frame from the allocator it was handed and maps the
\* next heap page to it through the mapper it was handed: it writes the
\* entry of the page into the level-1 table of the heap.
init_heap_allocate ==
    /\ pc = "heap"
    /\ heap_frames < MaxHeapFrames
    /\ AllocateOn(init_allocator)
    /\ LET frame == allocate_result(memory_map, allocators[init_allocator].next)
       IN  IF AllocatePanics(init_allocator)
           THEN UNCHANGED <<phys_mem, heap_frames>>
           ELSE /\ phys_mem' =
                     IF IsSome(frame)
                     THEN [phys_mem EXCEPT
                              ![L1_heap(cr3)] =
                                  (p1_index(heap_page(heap_frames)) :>
                                       table_entry(ToU64(Unwrap(frame)))) @@ @]
                     ELSE phys_mem
                /\ heap_frames' = heap_frames + 1
    /\ UNCHANGED <<proc_vars, boot_vars, PHYS_MEM_OFFSET, cr3, region_i, memory_size,
                   init_mapper, init_allocator, heap_result, console, init_calls,
                   offset_writes, result>>

\* init_heap returns Ok(()).
init_heap_ok ==
    /\ pc = "heap"
    /\ heap_result' = "Ok"
    /\ pc' = init_step_after("heap")
    /\ UNCHANGED <<proc_vars, boot_vars, PHYS_MEM_OFFSET, cr3, phys_mem, alloc_vars,
                   region_i, memory_size, init_mapper, init_allocator, heap_frames,
                   console, init_calls, offset_writes, result, panic>>

\* init_heap returns Err.
init_heap_err ==
    /\ pc = "heap"
    /\ heap_result' = "Err"
    /\ pc' = init_step_after("heap")
    /\ UNCHANGED <<proc_vars, boot_vars, PHYS_MEM_OFFSET, cr3, phys_mem, alloc_vars,
                   region_i, memory_size, init_mapper, init_allocator, heap_frames,
                   console, init_calls, offset_writes, result, panic>>

\* An expect that lets an Err pass.
expect_lenient(res, msg) == Some(res)

\* Result::expect(msg): the panic with msg on Err.
expect(res, msg) == IF res = "Err" THEN Panic(msg) ELSE Some(res)

\* .expect("heap initialization failed"), after which init returns.
init_expect ==
    /\ pc = "expect"
    /\ LET r == expect(heap_result, "heap initialization failed")
       IN  IF IsPanic(r) THEN Halt(r[2])
           ELSE pc' = init_step_after("expect") /\ UNCHANGED panic
    /\ UNCHANGED <<proc_vars, boot_vars, PHYS_MEM_OFFSET, cr3, phys_mem, alloc_vars,
                   init_locals, console, init_calls, offset_writes, result>>

(***************************************************************************)
(* The address translators and the Cr3 register.                           *)
(***************************************************************************)
NoResult == [op |-> "none", arg |-> Zero64, offset |-> Zero64, ret |-> None]

PhysToVirt(addr) ==
    /\ pc = "idle"
    /\ LET ret == phys_to_virt(addr, PHYS_MEM_OFFSET, overflow_checks)
       IN  /\ result' = [op |-> "phys_to_virt", arg |-> addr,
                         offset |-> PHYS_MEM_OFFSET, ret |-> ret]
           /\ IF IsPanic(ret) THEN Halt(ret[2]) ELSE UNCHANGED <<pc, panic>>
    /\ UNCHANGED <<proc_vars, boot_vars, PHYS_MEM_OFFSET, cr3, phys_mem, alloc_vars,
                   init_locals, console, init_calls, offset_writes>>

\* virt_to_phys: a mapper is built from PHYS_MEM_OFFSET and Cr3 as they are
\* now, and the address is translated through it, by reads of the memory
\* its pointers lead to.
VirtToPhys(addr) ==
    /\ pc = "idle"
    /\ LET off == VirtAddr_new(PHYS_MEM_OFFSET)
           m   == IF IsPanic(off) THEN off ELSE mapper(Unwrap(off), cr3, overflow_checks)
           ret == IF IsPanic(m) THEN m
                  ELSE translate_addr(phys_mem, cr3, Unwrap(m), addr, overflow_checks)
       IN  /\ result' = [op |-> "virt_to_phys", arg |-> addr,
                         offset |-> PHYS_MEM_OFFSET, ret |-> ret]
           /\ IF IsPanic(ret) THEN Halt(ret[2]) ELSE UNCHANGED <<pc, panic>>
    /\ UNCHANGED <<proc_vars, boot_vars, PHYS_MEM_OFFSET, cr3, phys_mem, alloc_vars,
                   init_locals, console, init_calls, offset_writes>>

\* The kernel loads another level-4 table frame into Cr3.
Cr3_write(r) ==
    /\ pc = "idle"
    /\ r # cr3
    /\ cr3' = r
    /\ UNCHANGED <<proc_vars, boot_vars, PHYS_MEM_OFFSET, phys_mem, alloc_vars, pc,
                   init_locals, console, init_calls, offset_writes, result, panic>>

(***************************************************************************)
(* process.rs: the counter PIDS, the mutex-guarded PROCESS, and the calls   *)
(* of the threads of the kernel.                                           *)
(***************************************************************************)
\* Processes the callers create directly.
MaxProcs == 2

Threads == {"t1", "t2"}
Keys == {"HOME", "PATH"}
Vals == {"a", "b"}
Dirs == {"/", "/tmp"}

\* A map entry and a string that are being written.
Torn == <<"Torn">>
TornDir == "<torn>"

\* BTreeMap::new()
EmptyEnv == [k \in Keys |-> None]

\* A fetch_add that stores nothing.
fetch_add_forgetful(counter) == [old |-> counter, new |-> counter]

\* AtomicUsize::fetch_add(1, SeqCst): the previous value, and the value
\* stored, which wraps at the width of usize.
fetch_add(counter) == [old |-> counter, new |-> (counter + 1) % (USIZE_MAX + 1)]

\* Process::new(dir), with the counter it leaves behind.
Process_new(dir, counter) ==
    LET id == fetch_add(counter)
    IN  [process |-> [id |-> id.old, env |-> EmptyEnv, dir |-> dir], counter |-> id.new]

\* An insert that drops the other entries.
insert_replacing(env, key, val) == [k \in Keys |-> IF k = key THEN Some(val) ELSE None]

\* BTreeMap::insert
insert(env, key, val) == [env EXCEPT ![key] = Some(val)]

\* A lock that anyone may take at any time.
can_lock_always(l) == TRUE

\* spin::Mutex::lock succeeds when nobody holds the mutex.
can_lock(l) == l = "free"

Readers == {"id", "env", "envs", "dir"}
Writers == {"set_env", "set_dir"}

\* The calls with their arguments.
Calls ==
    {[op |-> "id", key |-> "", val |-> ""], [op |-> "envs", key |-> "", val |-> ""],
     [op |-> "dir", key |-> "", val |-> ""]}
        \cup {[op |-> "env", key |-> k, val |-> ""] : k \in Keys}
        \cup {[op |-> "set_env", key |-> k, val |-> v] : k \in Keys, v \in Vals}
        \cup {[op |-> "set_dir", key |-> "", val |-> d] : d \in Dirs}

Idle == [pc |-> "idle", op |-> "none", key |-> "", val |-> "", tmp |-> None, ret |-> None]

ProcessBooted ==
    /\ PIDS = 0
    /\ PROCESS = None
    /\ lock = "free"
    /\ threads = [t \in Threads |-> Idle]
    /\ created = <<>>
    /\ committed = [env |-> EmptyEnv, dir |-> "/"]

\* Thread t creates a process of its own.
ProcessNew(t, dir) ==
    /\ threads[t].pc = "idle"
    /\ Len(created) < MaxProcs
    /\ LET n == Process_new(dir, PIDS)
       IN  /\ PIDS' = n.counter
           /\ created' = Append(created, n.process.id)
    /\ UNCHANGED <<mem_vars, PROCESS, lock, threads, committed>>

\* Thread t enters one of the functions that lock PROCESS.
Call(t, c) ==
    /\ threads[t].pc = "idle"
    /\ threads' = [threads EXCEPT ![t] = [Idle EXCEPT !.pc = "lock", !.op = c.op,
                                                        !.key = c.key, !.val = c.val]]
    /\ UNCHANGED <<mem_vars, PIDS, PROCESS, lock, created, committed>>

\* The first use of PROCESS runs its initializer, Process::new("/"), once.
LazyInit(t) ==
    /\ threads[t].pc = "lock"
    /\ PROCESS = None
    /\ LET n == Process_new("/", PIDS)
       IN  /\ PROCESS' = Some(n.process)
           /\ PIDS' = n.counter
           /\ created' = Append(created, n.process.id)
    /\ UNCHANGED <<mem_vars, lock, threads, committed>>

\* PROCESS.lock()
Acquire(t) ==
    /\ threads[t].pc = "lock"
    /\ PROCESS # None
    /\ can_lock(lock)
    /\ lock' = t
    /\ threads' = [threads EXCEPT ![t].pc = "body"]
    /\ UNCHANGED <<mem_vars, PIDS, PROCESS, created, committed>>

\* What a reader returns from the process it sees.
read(c, process) ==
    CASE c.op = "id" -> process.id
      [] c.op = "env" -> process.env[c.key]
      [] c.op = "envs" -> process.env
      [] OTHER -> process.dir

\* id, env, envs, dir: the value is copied out and the guard is dropped.
Read(t) ==
    /\ threads[t].pc = "body"
    /\ threads[t].op \in Readers
    /\ threads' = [threads EXCEPT ![t].pc = "ret",
                                  ![t].ret = read(threads[t], Unwrap(PROCESS))]
    /\ lock' = "free"
    /\ UNCHANGED <<mem_vars, PIDS, PROCESS, created, committed>>

\* set_env, set_dir: the write starts on the map or the string it found.
WriteBegin(t) ==
    /\ threads[t].pc = "body"
    /\ threads[t].op \in Writers
    /\ LET process == Unwrap(PROCESS)
       IN  IF threads[t].op = "set_env"
           THEN /\ threads' = [threads EXCEPT ![t].pc = "mid", ![t].tmp = process.env]
                /\ PROCESS' = Some([process EXCEPT !.env[threads[t].key] = Torn])
           ELSE /\ threads' = [threads EXCEPT ![t].pc = "mid"]
                /\ PROCESS' = Some([process EXCEPT !.dir = TornDir])
    /\ UNCHANGED <<mem_vars, PIDS, lock, created, committed>>

\* set_env, set_dir: the write completes, the guard is dropped and the call
\* returns.
WriteEnd(t) ==
    /\ threads[t].pc = "mid"
    /\ LET process == Unwrap(PROCESS)
           c == threads[t]
       IN  IF c.op = "set_env"
           THEN /\ PROCESS' = Some([process EXCEPT !.env = insert(c.tmp, c.key, c.val)])
                /\ committed' = [committed EXCEPT !.env[c.key] = Some(c.val)]
           ELSE /\ PROCESS' = Some([process EXCEPT !.dir = c.val])
                /\ committed' = [committed EXCEPT !.dir = c.val]
    /\ lock' = "free"
    /\ threads' = [threads EXCEPT ![t] = Idle]
    /\ UNCHANGED <<mem_vars, PIDS, created>>

\* A reader hands its value to its caller.
Return(t) ==
    /\ threads[t].pc = "ret"
    /\ threads' = [threads EXCEPT ![t] = Idle]
    /\ UNCHANGED <<mem_vars, PIDS, PROCESS, lock, created, committed>>

\* The steps of thread t inside a call.
Step(t) ==
    \/ LazyInit(t)
    \/ Acquire(t)
    \/ Read(t)
    \/ WriteBegin(t)
    \/ WriteEnd(t)
    \/ Return(t)

(***************************************************************************)
(* Specifications.                                                         *)
(***************************************************************************)
\* The state after the boot loader has handed over, before any call, but
\* for the allocator instances.
BootedKernel ==
    /\ PHYS_MEM_OFFSET = Zero64
    /\ cr3 = L4_A
    /\ pc = "idle"
    /\ region_i = 0
    /\ memory_size = Zero64
    /\ console = <<>>
    /\ init_mapper = None
    /\ init_allocator = 0
    /\ heap_frames = 0
    /\ heap_result = "none"
    /\ init_calls = 0
    /\ offset_writes = 0
    /\ result = NoResult
    /\ panic = ""
    /\ ProcessBooted

\* No allocator instance has been built.
Booted ==
    /\ BootedKernel
    /\ phys_mem = InitialMemory(boot_offset, [kind |-> "unmapped", word |-> Zero64])
    /\ allocators = <<>>
    /\ returned = <<>>

\* [(0x0-0x1000, Reserved), (0x1000-0x3000, Usable)]
ScenarioMap ==
    <<[range |-> [start_frame_number |-> 0, end_frame_number |-> 1],
       region_type |-> "Reserved"],
      [range |-> [start_frame_number |-> 1, end_frame_number |-> 3],
       region_type |-> "Usable"]>>

\* The steps of init after its entry.
init_body ==
    \/ init_report_region
    \/ init_report_total
    \/ init_set_offset
    \/ init_build_mapper
    \/ init_build_allocator
    \/ init_heap_allocate
    \/ init_heap_ok
    \/ init_heap_err
    \/ init_expect

init_step ==
    \/ init_enter
    \/ init_body

\* init and the address translators, called in any order by the rest of
\* the kernel.  The allocator instances of the environment share no state
\* with them and are followed in SpecAlloc.
Init ==
    /\ memory_map = ScenarioMap
    /\ boot_offset \in OffsetSamples
    /\ overflow_checks \in BOOLEAN
    /\ Booted

Next ==
    \/ init_step
    \/ \E addr \in PhysSamples : PhysToVirt(addr)
    \/ \E addr \in VirtSamples(boot_offset, overflow_checks) : VirtToPhys(addr)
    \/ \E r \in Roots : Cr3_write(r)

Spec == Init /\ [][Next]_vars

\* init, called once, and virt_to_phys and the writes of Cr3 before and
\* after it, over every sampled content of the lowest gigabyte of
\* virtual addresses.
InitTranslate ==
    /\ memory_map = ScenarioMap
    /\ boot_offset \in OffsetSamples
    /\ overflow_checks \in BOOLEAN
    /\ BootedKernel
    /\ phys_mem \in {InitialMemory(boot_offset, low) : low \in LowSamples}
    /\ allocators = <<>>
    /\ returned = <<>>

NextTranslate ==
    \/ init_calls = 0 /\ init_enter
    \/ init_body
    \/ \E addr \in VirtSamples(boot_offset, overflow_checks) : VirtToPhys(addr)
    \/ \E r \in Roots : Cr3_write(r)

SpecTranslate == InitTranslate /\ [][NextTranslate]_vars

\* [(0x0-0x2000, Usable), (0x2000-0x3000, Reserved)]
TrailingMap ==
    <<[range |-> [start_frame_number |-> 0, end_frame_number |-> 2],
       region_type |-> "Usable"],
      [range |-> [start_frame_number |-> 2, end_frame_number |-> 3],
       region_type |-> "Reserved"]>>

\* One allocator alone, as BootInfoFrameAllocator::init has built it, over
\* every enumerated memory map, called until its cursor has gone through
\* every usize and one call beyond, in a build with and in a build without
\* overflow checks.
InitAlloc ==
    /\ memory_map \in MemoryMaps \cup {ScenarioMap, TrailingMap}
    /\ boot_offset = <<65535, 32768, 0, 0>>
    /\ overflow_checks \in BOOLEAN
    /\ BootedKernel
    /\ phys_mem = InitialMemory(boot_offset, [kind |-> "unmapped", word |-> Zero64])
    /\ allocators = <<NewAllocator("env")>>
    /\ returned = <<<<>>>>

NextAlloc == \E i \in 1..Len(allocators) : allocate_frame(i, USIZE_MAX + 2)

SpecAlloc == InitAlloc /\ [][NextAlloc]_vars

\* Several allocator instances over one memory map, each called until its
\* cursor has gone through every usize and two calls beyond, in a build
\* with and in a build without overflow checks.
InstanceMaps == SeqsUpTo(Regions, 1) \cup {ScenarioMap}

InitInstances ==
    /\ memory_map \in InstanceMaps
    /\ boot_offset = <<65535, 32768, 0, 0>>
    /\ overflow_checks \in BOOLEAN
    /\ Booted

NextInstances ==
    \/ BootInfoFrameAllocator_init(MaxAllocators)
    \/ \E i \in 1..Len(allocators) : allocate_frame(i, USIZE_MAX + 3)

SpecInstances == InitInstances /\ [][NextInstances]_vars

\* The threads of the kernel in process.rs: each creates processes and calls
\* id, env, envs, dir, set_env and set_dir, over and over.
InitProcess ==
    /\ memory_map = ScenarioMap
    /\ boot_offset = <<65535, 32768, 0, 0>>
    /\ overflow_checks = TRUE
    /\ Booted

NextProcess ==
    \/ \E t \in Threads : \E d \in Dirs : ProcessNew(t, d)
    \/ \E t \in Threads : \E c \in Calls : Call(t, c)
    \/ \E t \in Threads : Step(t)

SpecProcess == InitProcess /\ [][NextProcess]_vars

\* The calls that go through the mutex, with every thread that is inside a
\* call running on: a step of it that stays possible is taken.  The mutex
\* is a spin lock without a queue, so nothing more is assumed about who
\* takes it.
LockedCalls == {c \in Calls : c.op # "id"}

NextLocked ==
    \/ \E t \in Threads : \E c \in LockedCalls : Call(t, c)
    \/ \E t \in Threads : Step(t)

SpecLocked ==
    InitProcess /\ [][NextLocked]_vars /\ \A t \in Threads : WF_vars(Step(t))

\* The boot path: the kernel entry point calls init, once, over every
\* enumerated memory map, in a build with and in a build without overflow
\* checks.
InitBoot ==
    /\ memory_map \in MemoryMaps
    /\ boot_offset \in OffsetSamples
    /\ overflow_checks \in BOOLEAN
    /\ Booted

NextBoot ==
    \/ init_calls = 0 /\ init_enter
    \/ init_report_region
    \/ init_report_total
    \/ init_set_offset
    \/ init_build_mapper
    \/ init_build_allocator
    \/ init_heap_allocate
    \/ init_heap_ok
    \/ init_heap_err
    \/ init_expect

SpecBoot == InitBoot /\ [][NextBoot]_vars

(***************************************************************************)
(* Reference definitions used by the allocator properties.  They are       *)
(* stated in closed form over the memory map, independently of the         *)
(* iterator pipeline above.                                                *)
(***************************************************************************)
Aligned(a) == a % PAGE_SIZE = 0

\* Number of addresses start, start + 4096, ... below end of a kept region.
RefCount(r) ==
    IF r.region_type = "Usable" /\ end_addr(r.range) > start_addr(r.range)
    THEN ((end_addr(r.range) - start_addr(r.range) - 1) \div PAGE_SIZE) + 1
    ELSE 0

\* Number of reference elements contributed by the first n regions.
RECURSIVE RefPrefix(_, _)
RefPrefix(map, n) == IF n = 0 THEN 0 ELSE RefPrefix(map, n - 1) + RefCount(map[n])

RefLen(map) == RefPrefix(map, Len(map))

\* Index of the region that contributes reference element k (k from 0).
RefRegion(map, k) ==
    CHOOSE n \in 1..Len(map) : RefPrefix(map, n - 1) <= k /\ k < RefPrefix(map, n)

\* Reference element k: an address of region RefRegion(map, k).
RefAddr(map, k) ==
    LET n == RefRegion(map, k)
    IN  start_addr(map[n].range) + PAGE_SIZE * (k - RefPrefix(map, n - 1))

\* Every result some allocator instance has returned, with its position.
Made == UNION {{<<i, k>> : k \in 1..Len(returned[i])} : i \in 1..Len(returned)}
Result(c) == returned[c[1]][c[2]]

UsableRegionsOf(map) == {n \in 1..Len(map) : map[n].region_type = "Usable"}

(***************************************************************************)
(* C1                                                                      *)
(***************************************************************************)
\* C1 (as stated): for every memory map, one allocator instance never
\* returns the same frame from two different allocate_frame calls.
C1_NoFrameTwice ==
    \A c, d \in Made :
        (c[1] = d[1] /\ c[2] # d[2] /\ IsSome(Result(c))) => Result(c) # Result(d)

(***************************************************************************)
(* C2                                                                      *)
(***************************************************************************)
InRegion(a, r) == start_addr(r.range) <= a /\ a < end_addr(r.range)

\* C2 (as stated): every frame returned by allocate_frame has a start
\* address that is a multiple of 4096 and lies inside [start, end) of some
\* region classified Usable.
C2_AlignedInsideUsable ==
    \A c \in Made :
        IsSome(Result(c)) =>
            /\ Aligned(Unwrap(Result(c)))
            /\ \E n \in UsableRegionsOf(memory_map) :
                  InRegion(Unwrap(Result(c)), memory_map[n])

\* A frame was returned from a map that also holds a non-usable region with
\* addresses of its own, lying below the usable region the frame is in.
C2_Witness ==
    \E n \in 1..Len(memory_map), m \in UsableRegionsOf(memory_map), c \in Made :
        /\ memory_map[n].region_type = "Reserved"
        /\ start_addr(memory_map[n].range) < end_addr(memory_map[n].range)
        /\ end_addr(memory_map[n].range) <= start_addr(memory_map[m].range)
        /\ IsSome(Result(c))
        /\ InRegion(Unwrap(Result(c)), memory_map[m])
        /\ Unwrap(Result(c)) > start_addr(memory_map[m].range)

(***************************************************************************)
(* C3                                                                      *)
(***************************************************************************)
\* C3 (as stated): the (k+1)-th call on a fresh allocator returns the k-th
\* element of the reference sequence (regions in map order, Usable only,
\* addresses start, start + 4096, ... below end, concatenated), and None
\* when k is at or past its length.
C3_ReturnsReferenceAddr ==
    \A c \in Made :
        Result(c) = IF c[2] - 1 < RefLen(memory_map)
                    THEN Some(RefAddr(memory_map, c[2] - 1))
                    ELSE None

(***************************************************************************)
(* C4                                                                      *)
(***************************************************************************)
\* C4: once allocate_frame has returned None on an instance, every later
\* allocate_frame call on that instance returns None as well.
C4_NoneIsTerminal ==
    \A c, d \in Made :
        (c[1] = d[1] /\ c[2] < d[2] /\ Result(c) = None) => Result(d) = None

(***************************************************************************)
(* C5                                                                      *)
(***************************************************************************)
\* The cursor a fresh instance holds when it is called for the c[2]-th time.
CursorAt(c) == (c[2] - 1) % (USIZE_MAX + 1)

\* The cursor of the call lies within the reference sequence.
HasSource(c) == CursorAt(c) < RefLen(memory_map)

\* The region a returned frame was taken from.
SourceRegion(c) == memory_map[RefRegion(memory_map, CursorAt(c))]

WholeFrameInside(f, r) == f >= start_addr(r.range) /\ f + PAGE_SIZE <= end_addr(r.range)

\* C5 (as stated): every frame returned from a Usable region [start, end)
\* lies wholly inside it, frame_start >= start and frame_start + 4096 <= end,
\* also when end - start is not a multiple of 4096.
C5_NoPartialFrame ==
    \A c \in Made :
        IsSome(Result(c)) =>
            (HasSource(c) /\ WholeFrameInside(Unwrap(Result(c)), SourceRegion(c)))

\* The last frame of a usable region of more than one frame was returned,
\* and the region is followed by addresses that are not usable.
C5_Witness ==
    \E c \in Made :
        /\ IsSome(Result(c))
        /\ HasSource(c)
        /\ Unwrap(Result(c)) + PAGE_SIZE = end_addr(SourceRegion(c).range)
        /\ Unwrap(Result(c)) > start_addr(SourceRegion(c).range)
        /\ \E n \in 1..Len(memory_map) :
              /\ memory_map[n].region_type = "Reserved"
              /\ start_addr(memory_map[n].range) = end_addr(SourceRegion(c).range)
              /\ start_addr(memory_map[n].range) < end_addr(memory_map[n].range)

(***************************************************************************)
(* C6                                                                      *)
(***************************************************************************)
\* C6: the cursor starts at 0 and every allocate_frame call advances it by
\* exactly one, whether the call returned a frame or None: after n calls on
\* an instance its cursor equals n.
C6_CursorCountsCalls ==
    \A i \in 1..Len(allocators) : allocators[i].next = Len(returned[i])

(***************************************************************************)
(* C7                                                                      *)
(***************************************************************************)
Translations == {"phys_to_virt", "virt_to_phys"}

\* C7: the physical-memory offset is written exactly once, by init, before
\* any read of it, and every read made by phys_to_virt, virt_to_phys or
\* init's mapper construction observes boot_info.physical_memory_offset,
\* never the initial 0 or a stale value.
C7_OffsetWrittenOnceBeforeUse ==
    /\ offset_writes <= 1
    /\ result.op \in Translations => result.offset = boot_offset
    /\ IsSome(init_mapper) => Unwrap(init_mapper).phys_offset = boot_offset

(***************************************************************************)
(* C8                                                                      *)
(***************************************************************************)
\* The lines init prints for a memory map, up to the total.
ReportLines(map) == [k \in 1..Len(map) |-> RegionLine(map[k])]

Reported ==
    /\ Len(console) = Len(memory_map) + 1
    /\ SubSeq(console, 1, Len(memory_map)) = ReportLines(memory_map)
    /\ console[Len(console)].kind = "total"

OffsetRecorded == offset_writes = 1 /\ PHYS_MEM_OFFSET = boot_offset

ViewBuilt == IsSome(init_mapper) /\ Unwrap(init_mapper).phys_offset = boot_offset

AllocatorBuilt ==
    /\ init_allocator \in 1..Len(allocators)
    /\ allocators[init_allocator].owner = "init"

\* init_heap has been entered: it took a frame, or it has returned.
HeapEntered ==
    \/ heap_frames > 0
    \/ heap_result # "none"
    \/ panic = "heap initialization failed"
    \/ (pc = "idle" /\ init_calls > 0)

\* C8: init performs its steps once and in this order: it reports every
\* region and the total, then records the offset, then builds the
\* page-table view at that offset, then constructs the frame allocator,
\* then hands both to heap initialization; no step starts before the
\* previous one has finished.
C8_InitStepsInOrder ==
    /\ Len(console) <= Len(memory_map) + 1
    /\ offset_writes <= 1
    /\ offset_writes = 1 => Reported /\ OffsetRecorded
    /\ IsSome(init_mapper) => OffsetRecorded /\ ViewBuilt
    /\ init_allocator # 0 => ViewBuilt /\ AllocatorBuilt
    /\ HeapEntered => ViewBuilt /\ AllocatorBuilt
    /\ ~HeapEntered /\ init_allocator # 0 => allocators[init_allocator].next = 0

\* init has run to its end over a map of two regions and returned after
\* heap initialization took a frame.
C8_Witness ==
    /\ pc = "idle"
    /\ init_calls = 1
    /\ Len(memory_map) = 2
    /\ Reported /\ OffsetRecorded /\ ViewBuilt /\ AllocatorBuilt
    /\ heap_frames = 1
    /\ IsSome(returned[init_allocator][1])

(***************************************************************************)
(* C9                                                                      *)
(***************************************************************************)
RECURSIVE SumOfAllRegions(_)
SumOfAllRegions(map) ==
    IF map = <<>> THEN 0
    ELSE (end_addr(Head(map).range) - start_addr(Head(map).range)) + SumOfAllRegions(Tail(map))

\* n / 1024 rounded down.
Kilobytes(n) == (n - (n % 1024)) \div 1024

TotalPrinted == console # <<>> /\ console[Len(console)].kind = "total"

\* No region ends below its start.
Ordered(map) ==
    \A n \in 1..Len(map) : start_addr(map[n].range) <= end_addr(map[n].range)

TotalIsSum ==
    /\ SumOfAllRegions(memory_map) >= 0
    /\ memory_size = ToU64(SumOfAllRegions(memory_map))
    /\ console[Len(console)].kb = ToU64(Kilobytes(SumOfAllRegions(memory_map)))

CHUNK == 256 * LIMB

Lo24(a) == ((a[3] % 256) * LIMB) + a[4]
Mid24(a) == (a[2] * 256) + (a[3] \div 256)

SumLo(a, b) == Lo24(a) + Lo24(b)
SumMid(a, b) == Mid24(a) + Mid24(b) + (SumLo(a, b) \div CHUNK)
SumHi(a, b) == a[1] + b[1] + (SumMid(a, b) \div CHUNK)

\* a + b is below 2^64.
SumFits(a, b) == SumHi(a, b) < LIMB

\* a + b as a word, when it fits.
SumWord(a, b) ==
    LET lo  == SumLo(a, b) % CHUNK
        mid == SumMid(a, b) % CHUNK
    IN  <<SumHi(a, b), mid \div 256, ((mid % 256) * 256) + (lo \div LIMB), lo % LIMB>>

\* Bits 47..63 of a + b are all 0 or all 1.
SumCanonical(a, b) ==
    LET top == (SumHi(a, b) * 2) + ((SumMid(a, b) % CHUNK) \div (CHUNK \div 2))
    IN  SumFits(a, b) /\ top \in {0, 131071}

\* C10 (as stated): phys_to_virt is total: for every physical address p and
\* every offset it returns the virtual address p + offset, without a panic.
\* It is stated here for the calls that read the offset of the boot record.
C10_TotalSum ==
    (result.op = "phys_to_virt" /\ result.offset = boot_offset) =>
        /\ SumFits(result.arg, result.offset)
        /\ result.ret = Some(SumWord(result.arg, result.offset))

\* C10 (amended): phys_to_virt returns p + offset when p + offset is below
\* 2^64 and a canonical address (bits 47..63 all equal).  For any other p and
\* offset it does not return p + offset: a sum below 2^64 that is not
\* canonical panics or comes back sign extended, and a sum of 2^64 or more
\* panics in a build with overflow checks.
C10_SumWhenCanonical ==
    result.op = "phys_to_virt" =>
        LET p == result.arg
            off == result.offset
        IN  /\ SumCanonical(p, off) => result.ret = Some(SumWord(p, off))
            /\ (SumFits(p, off) /\ ~SumCanonical(p, off)) =>
                   result.ret # Some(SumWord(p, off))
            /\ (~SumFits(p, off) /\ overflow_checks) => IsPanic(result.ret)

\* After init, phys_to_virt returned the sum of a nonzero address and the
\* boot offset.
C10_Witness ==
    /\ result.op = "phys_to_virt"
    /\ result.offset = boot_offset
    /\ result.arg # Zero64
    /\ SumCanonical(result.arg, result.offset)
    /\ IsSome(result.ret)

(***************************************************************************)
(* C11                                                                     *)
(***************************************************************************)
\* C11 (as stated): allocate_frame never panics: whatever the number of
\* calls, each call completes and returns a frame or None, the cursor being
\* a fixed-width unsigned integer incremented on every call.
C11_NeverPanics ==
    /\ pc # "halted"
    /\ panic = ""
    /\ \A c \in Made : Result(c) = None \/ IsSome(Result(c))

(***************************************************************************)
(* C16                                                                     *)
(***************************************************************************)
\* Two instances have returned the same frames, call for call.
SameSequence ==
    \A i, j \in 1..Len(returned) :
        \A n \in 1..Len(returned[i]) :
            n <= Len(returned[j]) => returned[i][n] = returned[j][n]

\* A step that builds no instance changes the cursor of at most one
\* instance and neither the memory map nor the offset.
OnlyOwnCursor ==
    Len(allocators') = Len(allocators) =>
        /\ memory_map' = memory_map
        /\ PHYS_MEM_OFFSET' = PHYS_MEM_OFFSET
        /\ boot_offset' = boot_offset
        /\ Cardinality({i \in 1..Len(allocators) : allocators'[i] # allocators[i]}) <= 1
        /\ \A i \in 1..Len(allocators) :
               returned'[i] # returned[i] => allocators'[i] # allocators[i]

\* C16: allocate_frame changes only the cursor of the instance it is called
\* on: the memory map, the physical-memory offset and the cursor of every
\* other instance stay as they were, and so a second instance built over the
\* same memory map returns, from its first call on, the frames the first
\* instance returned.
C16_OnlyOwnCursor == []SameSequence /\ [][OnlyOwnCursor]_vars

\* Two instances, the first two calls ahead of the second, which has
\* returned a frame.
C16_Witness ==
    /\ Len(returned) = 2
    /\ Len(returned[1]) = Len(returned[2]) + 2
    /\ Len(returned[2]) > 0
    /\ IsSome(returned[2][1])

(***************************************************************************)
(* C12, C13, C15: virt_to_phys                                             *)
(***************************************************************************)
\* The step is a call of virt_to_phys, on the address Arg: the call leaves
\* its record in result, and no other step writes one of virt_to_phys.
Arg == result'.arg
V2PStep == result' # result /\ result'.op = "virt_to_phys"

\* The tables that Cr3 names have no entry for v: the processor finds no
\* translation of it.
NoEntry(v) == mmu(phys_mem, cr3, v) = None

\* PHYS_MEM_OFFSET holds the offset of the boot record.
OffsetInitialized == PHYS_MEM_OFFSET = boot_offset

\* C12 (as stated): virt_to_phys of a virtual address that has no page-table
\* entry returns None and does not panic, and it changes neither the page
\* tables nor the offset.
C12_UnmappedIsNone ==
    [][(V2PStep /\ NoEntry(Arg)) =>
              /\ result'.ret = None
              /\ pc' = pc
              /\ panic' = panic
              /\ phys_mem' = phys_mem
              /\ PHYS_MEM_OFFSET' = PHYS_MEM_OFFSET]_vars

\* v is what phys_to_virt returns for p.
ImageOf(p, v) == phys_to_virt(p, PHYS_MEM_OFFSET, overflow_checks) = Some(v)

\* The frames a walk from the level-4 frame root reads as tables: the frames
\* named by the entries, present and of no huge page, of levels 4, 3 and 2.
Children(mem, f) ==
    {entry_addr(frame_words(mem, f)[i]) :
        i \in {j \in DOMAIN frame_words(mem, f) :
                  PRESENT(frame_words(mem, f)[j]) /\ ~HUGE_PAGE(frame_words(mem, f)[j])}}

TableFrames(mem, root) ==
    LET l3 == Children(mem, root)
        l2 == UNION {Children(mem, f) : f \in l3}
        l1 == UNION {Children(mem, f) : f \in l2}
    IN  {root} \cup l3 \cup l2 \cup l1

\* The tables that Cr3 names map the virtual address offset + q to the
\* physical address q.
MappedAt(offset, q) ==
    LET sum == add64(offset, q)
    IN  ~sum.overflow /\ mmu(phys_mem, cr3, sum.value) = Some(q)

\* The identity offset mapping is active for p: the tables that Cr3 names
\* map boot_offset + p to p, and every frame of those tables at boot_offset
\* plus its own address.
IdentityMappingActive(p) ==
    /\ MappedAt(boot_offset, p)
    /\ \A f \in TableFrames(phys_mem, cr3) : MappedAt(boot_offset, f)

\* C13: with the offset initialized and the identity offset mapping active
\* in the page tables, virt_to_phys(phys_to_virt(p)) returns Some(p), for
\* every physical address p.
C13_RoundTrip ==
    [][\A p \in PhysSamples :
          (V2PStep /\ OffsetInitialized /\ IdentityMappingActive(p) /\ ImageOf(p, Arg)) =>
              result'.ret = Some(p)]_vars

\* virt_to_phys has returned 0x2000_0000_0010 for the address phys_to_virt
\* gives for it, under the tables that map it at the offset.
C13_Witness ==
    /\ result.op = "virt_to_phys"
    /\ result.offset = boot_offset
    /\ PHYS_MEM_OFFSET = boot_offset
    /\ IdentityMappingActive(<<0, 8192, 0, 16>>)
    /\ phys_to_virt(<<0, 8192, 0, 16>>, boot_offset, overflow_checks) = Some(result.arg)
    /\ result.ret = Some(<<0, 8192, 0, 16>>)

\* The tables that Cr3 names are where a mapper built now looks for them:
\* each of their frames is mapped at PHYS_MEM_OFFSET plus its own address.
TablesAtOffset == \A f \in TableFrames(phys_mem, cr3) : MappedAt(PHYS_MEM_OFFSET, f)

\* C15: the page-table view is not cached: a virt_to_phys call builds it
\* from Cr3 and the offset as they are at the call, so that the call
\* returns the translation of the tables Cr3 names at that moment, also
\* after a change of Cr3.
C15_ViewRebuilt ==
    [][(V2PStep /\ TablesAtOffset) => result'.ret = mmu(phys_mem, cr3, Arg)]_vars

\* After init and a change of Cr3 to L4_B, virt_to_phys has found no
\* translation for an address that the tables of L4_A map and the tables of
\* L4_B do not.
C15_Witness ==
    /\ init_calls > 0
    /\ PHYS_MEM_OFFSET = boot_offset
    /\ cr3 = L4_B
    /\ TablesAtOffset
    /\ result.op = "virt_to_phys"
    /\ result.ret = None
    /\ mmu(phys_mem, L4_A, result.arg) # None
    /\ mmu(phys_mem, L4_B, result.arg) = None

(***************************************************************************)
(* C14                                                                     *)
(***************************************************************************)
\* init has returned to its caller.
InitReturned == pc = "idle" /\ init_calls > 0

\* C14: when heap initialization returns an error, init halts with the
\* message "heap initialization failed" and does not return: nothing is
\* retried and nothing runs afterwards; init returns only after heap
\* initialization has succeeded.
C14_HeapErrorIsFatal ==
    /\ heap_result = "Err" =>
           /\ pc \in {"expect", "halted"}
           /\ pc = "halted" => panic = "heap initialization failed"
    /\ pc = "expect" => heap_result # "none"
    /\ InitReturned => heap_result = "Ok"
    /\ panic = "heap initialization failed" => pc = "halted" /\ heap_result = "Err"

\* init_heap took a frame and returned an error, and init has halted with
\* the message.
C14_Witness ==
    /\ heap_result = "Err"
    /\ pc = "halted"
    /\ panic = "heap initialization failed"
    /\ heap_frames > 0

(***************************************************************************)
(* C17                                                                     *)
(***************************************************************************)
\* The n-th process created has id n - 1.
IdsInOrder == \A n \in 1..Len(created) : created[n] = n - 1

IdsDistinct ==
    \A m, n \in 1..Len(created) : m # n => created[m] # created[n]

IdsFromCounter == IdsInOrder /\ IdsDistinct /\ PIDS = Len(created)

\* The global process, once created, keeps its id.
IdStable ==
    PROCESS # None => PROCESS' # None /\ Unwrap(PROCESS').id = Unwrap(PROCESS).id

\* Thread t returns from the critical section of a reader in this step.
Reads(t) == threads[t].pc = "body" /\ threads'[t].pc = "ret"

\* id() reports the id of the global process.
IdReported ==
    \A t \in Threads :
        (Reads(t) /\ threads[t].op = "id") => threads'[t].ret = Unwrap(PROCESS).id

\* C17: any two Process::new calls, however the callers interleave, receive
\* distinct ids; the ids come from the global counter, the first is 0 and
\* each later one is one larger; and id() reports the same id of the global
\* process from its creation on.
C17_DistinctIds ==
    /\ []IdsFromCounter
    /\ [][IdStable /\ IdReported]_vars

\* Three processes exist, the global one is the last of them, and id()
\* has reported 2.
C17_Witness ==
    /\ Len(created) = 3
    /\ PROCESS # None
    /\ Unwrap(PROCESS).id = 2
    /\ \E t \in Threads :
          threads[t].pc = "ret" /\ threads[t].op = "id" /\ threads[t].ret = 2

(***************************************************************************)
(* C18                                                                     *)
(***************************************************************************)
\* With nobody inside a call, the process holds what the completed writes
\* have left.
Agree ==
    (PROCESS # None /\ lock = "free") =>
        /\ Unwrap(PROCESS).env = committed.env
        /\ Unwrap(PROCESS).dir = committed.dir

\* A reader returns what the completed writes have left: env(k) the value
\* of the last set_env on k, None if there was none.
ReadsCommitted ==
    \A t \in Threads :
        Reads(t) =>
            threads'[t].ret =
                read(threads[t], [id |-> Unwrap(PROCESS).id, env |-> committed.env,
                                  dir |-> committed.dir])

\* Thread t completes a write in this step.
Writes(t) == threads[t].pc = "mid" /\ threads'[t].pc = "idle"

\* set_env(k, v) leaves k at v and changes no other key, nor the directory,
\* nor the id; set_dir(d) leaves the directory at d and changes nothing else.
WritesOnlyTarget ==
    \A t \in Threads :
        Writes(t) =>
            LET c == threads[t]
                after == Unwrap(PROCESS')
            IN  /\ after.id = Unwrap(PROCESS).id
                /\ IF c.op = "set_env"
                   THEN /\ after.env[c.key] = Some(c.val)
                        /\ \A k \in Keys \ {c.key} : after.env[k] = committed.env[k]
                        /\ after.dir = committed.dir
                   ELSE /\ after.dir = c.val
                        /\ after.env = committed.env

\* C18: after set_env(k, v), env(k) returns Some(v) until the next set_env
\* on k, and env(k) is None for a key that was never set; set_env(k, v)
\* leaves the value of every other key, the working directory and the
\* process id as they were, and set_dir(d) changes only the directory that
\* dir() returns.
C18_EnvAndDir == []Agree /\ [][ReadsCommitted /\ WritesOnlyTarget]_vars

\* env("HOME") has returned the second value set for HOME, with PATH set
\* and the directory changed.
C18_Witness ==
    /\ committed.env["HOME"] = Some("b")
    /\ committed.env["PATH"] = Some("a")
    /\ committed.dir = "/tmp"
    /\ \E t \in Threads :
          /\ threads[t].pc = "ret"
          /\ threads[t].op = "env"
          /\ threads[t].key = "HOME"
          /\ threads[t].ret = Some("b")

(***************************************************************************)
(* C19                                                                     *)
(***************************************************************************)
Waiting(t) == threads[t].pc = "lock"
Holding(t) == threads[t].pc \in {"body", "mid"}

\* One thread at most is inside the critical section, and it holds the
\* mutex.
Exclusive ==
    /\ Cardinality({t \in Threads : Holding(t)}) <= 1
    /\ \A t \in Threads : Holding(t) => lock = t
    /\ lock # "free" => lock \in Threads /\ Holding(lock)

\* No reader has returned a value that was being written.
NoTornRead ==
    \A t \in Threads :
        threads[t].pc = "ret" =>
            /\ threads[t].op = "env" => threads[t].ret # Torn
            /\ threads[t].op = "envs" => \A k \in Keys : threads[t].ret[k] # Torn
            /\ threads[t].op = "dir" => threads[t].ret # TornDir

\* What a completed set_env or set_dir wrote is in the process, unless the
\* same key or the directory is being written again.
NoLostUpdate ==
    PROCESS # None =>
        /\ \A k \in Keys : Unwrap(PROCESS).env[k] \in {committed.env[k], Torn}
        /\ Unwrap(PROCESS).dir \in {committed.dir, TornDir}

Atomic == Exclusive /\ NoTornRead /\ NoLostUpdate

\* C19 (as stated): under any interleaving of set_env, set_dir, env, envs
\* and dir calls each call acts atomically on the process: no update is
\* lost, no reader sees a partly written state, and every call eventually
\* acquires the lock and releases it.
C19_EveryCallAcquires ==
    /\ []Atomic
    /\ \A t \in Threads : Waiting(t) ~> Holding(t)
    /\ \A t \in Threads : Holding(t) ~> ~Holding(t)

\* C19 (amended): each call acts atomically on the process: no update is
\* lost and no reader sees a partly written state; the lock never
\* deadlocks: while calls are waiting one of them acquires it, and every
\* call that has acquired it releases it.  A single waiting call can be
\* overtaken by the calls of other threads for ever.
C19_NoDeadlock ==
    /\ []Atomic
    /\ (\E t \in Threads : Waiting(t)) ~> (\E t \in Threads : Holding(t))
    /\ \A t \in Threads : Holding(t) ~> ~Holding(t)

\* Both keys have been set, one thread is in the middle of a write and the
\* other waits for the lock.
C19_Witness ==
    /\ committed.env["HOME"] # None
    /\ committed.env["PATH"] # None
    /\ \E t, u \in Threads : threads[t].pc = "mid" /\ Waiting(u)

====
